---------------------------- MODULE Spec2Model ----------------------------
(***************************************************************************)
(* Model of XY-new.py: the name-normalisation functions convert_x_name and *)
(* convert_y_name with their helpers, and the table pipeline of main().    *)
(*                                                                         *)
(* A Python str is a sequence of one-character tokens.  The module text is *)
(* ASCII, so each Chinese character of the lexicons is written as a token: *)
(*   Jin 進  Feng 風  Ji 機  Qi 氣  Pai 排  Pen 噴  Liu 流  Dian 電        *)
(*   Dong 動  Men 門  Yun 運  Zhuan 轉  Xun 訊  Hao 號  Gu 故  Zhang 障    *)
(* A null cell (None / NaN) is the value NA.                               *)
(***************************************************************************)
EXTENDS Integers, Sequences, FiniteSets, TLC

(***************************************************************************)
(* Bounds                                                                  *)
(***************************************************************************)
\* labels are concatenations of at most MaxParts pieces of Pieces
MaxParts == 3
\* sheets have at most MaxRows rows from the start row onward
MaxRows == 3

(***************************************************************************)
(* Character classes of Python 3 str and re (Unicode mode)                 *)
(***************************************************************************)
\* [A-Za-z]
AsciiLetter == {"A", "B", "C", "O", "X", "Y", "b", "x", "y"}
\* \d
Digit == {"0", "1", "2", "3", "5", "6", "7"}
\* CJK ideographs: alphanumeric, so matched by \w, but not by [A-Za-z]
Han == {"Jin", "Feng", "Ji", "Qi", "Pai", "Pen", "Liu", "Dian", "Dong",
        "Men", "Yun", "Zhuan", "Xun", "Hao", "Gu", "Zhang"}
\* characters removed by str.strip()
Whitespace == {" "}
\* \w
WordChar == AsciiLetter \cup Digit \cup Han \cup {"_"}

NA == <<"<NA>">>

(***************************************************************************)
(* Lexicons                                                                *)
(***************************************************************************)
JinFengJi == <<"Jin", "Feng", "Ji">>
JinQiJi == <<"Jin", "Qi", "Ji">>
PaiFengJi == <<"Pai", "Feng", "Ji">>
PaiQiJi == <<"Pai", "Qi", "Ji">>
PenLiuFengJi == <<"Pen", "Liu", "Feng", "Ji">>
DianDongFengMen == <<"Dian", "Dong", "Feng", "Men">>
YunZhuanXunHao == <<"Yun", "Zhuan", "Xun", "Hao">>
GuZhangXunHao == <<"Gu", "Zhang", "Xun", "Hao">>

IN_M == <<"I", "N", "_", "M">>
OUT_M == <<"O", "U", "T", "_", "M">>
M == <<"M">>
D == <<"D">>
STAT == <<"S", "T", "A", "T">>
ALM == <<"A", "L", "M">>

\* dev_code of "no device matched"
None == <<"<None>">>

DEVICE_MAP_reordered ==
    << [zh |-> PaiFengJi, en |-> OUT_M],
       [zh |-> PaiQiJi, en |-> OUT_M],
       [zh |-> JinFengJi, en |-> IN_M],
       [zh |-> JinQiJi, en |-> IN_M],
       [zh |-> PenLiuFengJi, en |-> M],
       [zh |-> DianDongFengMen, en |-> D] >>

\* a dict iterates in insertion order
DEVICE_MAP ==
    << [zh |-> JinFengJi, en |-> IN_M],
       [zh |-> JinQiJi, en |-> IN_M],
       [zh |-> PaiFengJi, en |-> OUT_M],
       [zh |-> PaiQiJi, en |-> OUT_M],
       [zh |-> PenLiuFengJi, en |-> M],
       [zh |-> DianDongFengMen, en |-> D] >>

SUFFIX_MAP_swapped ==
    << [zh |-> GuZhangXunHao, suf |-> ALM],
       [zh |-> YunZhuanXunHao, suf |-> STAT] >>

SUFFIX_MAP ==
    << [zh |-> YunZhuanXunHao, suf |-> STAT],
       [zh |-> GuZhangXunHao, suf |-> ALM] >>

(***************************************************************************)
(* str and re primitives                                                   *)
(***************************************************************************)
RECURSIVE lstrip(_)
lstrip(s) ==
    IF s # <<>> /\ Head(s) \in Whitespace THEN lstrip(Tail(s)) ELSE s

RECURSIVE rstrip(_)
rstrip(s) ==
    IF s # <<>> /\ s[Len(s)] \in Whitespace
    THEN rstrip(SubSeq(s, 1, Len(s) - 1))
    ELSE s

\* str.strip()
strip(s) == rstrip(lstrip(s))

\* text[k:] for 0 <= k
slice_from(text, k) == SubSeq(text, k + 1, Len(text))

RECURSIVE find_from(_, _, _)
find_from(text, zh, i) ==
    IF i + Len(zh) > Len(text) THEN -1
    ELSE IF SubSeq(text, i + 1, i + Len(zh)) = zh THEN i
    ELSE find_from(text, zh, i + 1)

\* str.find: lowest 0-based index of zh in text, -1 when absent
find(text, zh) == find_from(text, zh, 0)

\* `zh in s`
contains(s, zh) == find(s, zh) # -1

\* number of consecutive characters of class cls in s from 1-based position i
RECURSIVE run_len(_, _, _)
run_len(s, cls, i) ==
    IF i <= Len(s) /\ s[i] \in cls THEN 1 + run_len(s, cls, i + 1) ELSE 0

RECURSIVE first_in(_, _, _)
first_in(s, cls, i) ==
    IF i > Len(s) THEN 0
    ELSE IF s[i] \in cls THEN i
    ELSE first_in(s, cls, i + 1)

re_search_digits_one(after) ==
    LET i == first_in(after, Digit, 1)
    IN  IF i = 0 THEN [matched |-> FALSE, group1 |-> <<>>]
        ELSE [matched |-> TRUE, group1 |-> SubSeq(after, i, i)]

\* re.search(r'(\d+)', after): leftmost match, greedy
re_search_digits(after) ==
    LET i == first_in(after, Digit, 1)
    IN  IF i = 0 THEN [matched |-> FALSE, group1 |-> <<>>]
        ELSE [matched |-> TRUE,
              group1 |-> SubSeq(after, i, i + run_len(after, Digit, i) - 1)]

\* AREA_RE.match(text) with AREA_RE = ^([A-Za-z]+\d+)
AREA_RE_match(text) ==
    LET n == run_len(text, AsciiLetter, 1)
        m == run_len(text, Digit, n + 1)
    IN  IF n = 0 \/ m = 0 THEN [matched |-> FALSE, group1 |-> <<>>]
        ELSE [matched |-> TRUE, group1 |-> SubSeq(text, 1, n + m)]

CO_RE_match(s) ==
    /\ Len(s) >= 4
    /\ SubSeq(s, 1, 3) = <<"C", "O", "-">>
    /\ s[4] \in Digit

\* CO_RE.fullmatch(s) with CO_RE = ^CO-\d+$
CO_RE_fullmatch(s) ==
    /\ Len(s) >= 4
    /\ SubSeq(s, 1, 3) = <<"C", "O", "-">>
    /\ run_len(s, Digit, 4) = Len(s) - 3

keep_word_chars_only(s) == SelectSeq(s, LAMBDA c : c \in WordChar)

\* re.sub(r'[^\w\-]', '', s)
re_sub_non_word(s) == SelectSeq(s, LAMBDA c : c \in WordChar \cup {"-"})

is_na_never(value) == FALSE

is_na(value) == value = NA

(***************************************************************************)
(* Label parser                                                            *)
(***************************************************************************)
extract_area_prefix(text) ==
    LET match == AREA_RE_match(text)
    IN  IF match.matched THEN match.group1 ELSE <<>>

RECURSIVE device_loop(_, _)
device_loop(text, k) ==
    IF k > Len(DEVICE_MAP) THEN [en |-> None, device_no |-> <<>>]
    ELSE LET zh == DEVICE_MAP[k].zh
             idx == find(text, zh)
         IN  IF idx # -1
             THEN LET after == slice_from(text, idx + Len(zh))
                      num_match == re_search_digits(after)
                  IN  [en |-> DEVICE_MAP[k].en,
                       device_no |-> IF num_match.matched
                                     THEN num_match.group1 ELSE <<>>]
             ELSE device_loop(text, k + 1)

extract_device_and_no(text) == device_loop(text, 1)


(***************************************************************************)
(* Tag formatters.  A call returns [val, line]: the returned str and the   *)
(* source line of the return statement that produced it.                   *)
(***************************************************************************)
RECURSIVE suffix_loop(_, _)
suffix_loop(s, k) ==
    IF k > Len(SUFFIX_MAP) THEN <<>>
    ELSE IF contains(s, SUFFIX_MAP[k].zh) THEN SUFFIX_MAP[k].suf
    ELSE suffix_loop(s, k + 1)

convert_x_name(name_arg) ==
    IF is_na(name_arg) THEN [val |-> <<>>, line |-> 60]
    ELSE
    LET s == strip(name_arg)
        area_ == extract_area_prefix(s)
        dev_ == extract_device_and_no(s)
        dev_code == dev_.en
        dev_no == dev_.device_no
    IN  IF dev_code = None THEN [val |-> re_sub_non_word(s), line |-> 66]
        ELSE
        LET suffix == suffix_loop(s, 1)
            base0 == dev_code \o dev_no
            base1 == IF area_ # <<>> THEN area_ \o <<"_">> \o base0 ELSE base0
            base2 == IF suffix # <<>> THEN base1 \o <<"_">> \o suffix ELSE base1
        IN  [val |-> base2, line |-> 79]

In_Motor == <<"I", "n", " ", "M", "o", "t", "o", "r">>
Out_Motor == <<"O", "u", "t", " ", "M", "o", "t", "o", "r">>
Motor == <<"M", "o", "t", "o", "r">>
DOOR == <<"D", "O", "O", "R">>

\* {"IN_M": "In Motor", "OUT_M": "Out Motor", "M": "Motor"}[dev_code]
motor_label(dev_code) ==
    CASE dev_code = IN_M -> In_Motor
      [] dev_code = OUT_M -> Out_Motor
      [] dev_code = M -> Motor

format_motor_underscore(area_, dev_code, dev_no) ==
    LET label == motor_label(dev_code)
        prefix == IF area_ # <<>> THEN area_ \o <<"_">> ELSE <<>>
    IN  prefix \o label \o dev_no

\* lines 99-101
format_motor(area_, dev_code, dev_no) ==
    LET label == motor_label(dev_code)
        prefix == IF area_ # <<>> THEN area_ \o <<" ">> ELSE <<>>
    IN  prefix \o label \o dev_no

\* lines 104-105
format_door(area_, dev_no) ==
    LET desc == DOOR \o dev_no
    IN  IF area_ # <<>> THEN area_ \o <<"_">> \o desc ELSE desc

convert_y_name_sanitizing(name_arg) ==
    IF is_na(name_arg) THEN [val |-> <<>>, line |-> 85]
    ELSE
    LET s == strip(name_arg)
    IN  IF CO_RE_fullmatch(s) THEN [val |-> s, line |-> 89]
        ELSE
        LET area_ == extract_area_prefix(s)
            dev_ == extract_device_and_no(s)
            dev_code == dev_.en
            dev_no == dev_.device_no
        IN  IF dev_code = None THEN [val |-> re_sub_non_word(s), line |-> 94]
            ELSE IF dev_code \in {IN_M, OUT_M, M}
            THEN [val |-> format_motor(area_, dev_code, dev_no), line |-> 101]
            ELSE IF dev_code = D
            THEN [val |-> format_door(area_, dev_no), line |-> 105]
            ELSE [val |-> s, line |-> 107]

convert_y_name(name_arg) ==
    IF is_na(name_arg) THEN [val |-> <<>>, line |-> 85]
    ELSE
    LET s == strip(name_arg)
    IN  IF CO_RE_fullmatch(s) THEN [val |-> s, line |-> 89]
        ELSE
        LET area_ == extract_area_prefix(s)
            dev_ == extract_device_and_no(s)
            dev_code == dev_.en
            dev_no == dev_.device_no
        IN  IF dev_code = None THEN [val |-> s, line |-> 94]
            ELSE IF dev_code \in {IN_M, OUT_M, M}
            THEN [val |-> format_motor(area_, dev_code, dev_no), line |-> 101]
            ELSE IF dev_code = D
            THEN [val |-> format_door(area_, dev_no), line |-> 105]
            ELSE [val |-> s, line |-> 107]

(***************************************************************************)
(* Inputs                                                                  *)
(***************************************************************************)
Pieces ==
    { <<"A", "1", "6">>, <<"b">>, <<"1">>, <<"2", "3">>, <<" ">>,
      <<"_", "!">>, <<"C", "O", "-">>,
      JinFengJi, JinQiJi, PaiFengJi, PaiQiJi, PenLiuFengJi, DianDongFengMen,
      YunZhuanXunHao, GuZhangXunHao }

RECURSIVE Concats(_)
Concats(n) ==
    IF n = 0 THEN {<<>>}
    ELSE LET shorter == Concats(n - 1)
         IN  shorter \cup {s \o p : s \in shorter, p \in Pieces}

\* the labels of the documented examples
ExampleLabels ==
    { <<"A", "1", "6">> \o JinFengJi \o <<"1">> \o YunZhuanXunHao,
      JinQiJi \o <<"2">> \o GuZhangXunHao,
      <<"C", "O", "-", "0", "7">>,
      <<"B", "2">> \o PaiFengJi \o <<"3">>,
      DianDongFengMen \o <<"5">>,
      <<"C", "1">> \o DianDongFengMen \o <<"5">> }

Labels == Concats(MaxParts) \cup ExampleLabels

(***************************************************************************)
(* State                                                                   *)
(***************************************************************************)
VARIABLES
    name,       \* the label passed to the function under call
    pc,         \* "start", or the function / statement that has completed
    ret,        \* str returned by convert_x_name / convert_y_name
    ret_line,   \* line of the return statement executed (0: none yet)
    parsed,     \* (en, device_no) returned by extract_device_and_no
    area,       \* str returned by extract_area_prefix
    df_a,       \* main: the sheet, a sequence of rows (row i+1 is index i)
    ncols,      \* main: number of columns of the sheet
    df_x,       \* main: X section after get_section
    df_y,       \* main: Y section after get_section
    x_desc,     \* main: converted X labels
    y_desc,     \* main: converted Y labels
    df_tx,      \* main: X output frame
    df_ty,      \* main: Y output frame
    df_t        \* main: concatenated output table

convVars == <<name, pc, ret, ret_line, parsed, area>>
mainVars == <<df_a, ncols, df_x, df_y, x_desc, y_desc, df_tx, df_ty, df_t>>
vars == <<name, pc, ret, ret_line, parsed, area,
          df_a, ncols, df_x, df_y, x_desc, y_desc, df_tx, df_ty, df_t>>

NoParse == [en |-> <<>>, device_no |-> <<>>]

MainIdle ==
    /\ df_a = <<>> /\ ncols = 0
    /\ df_x = <<>> /\ df_y = <<>>
    /\ x_desc = <<>> /\ y_desc = <<>>
    /\ df_tx = <<>> /\ df_ty = <<>> /\ df_t = <<>>

Init ==
    /\ name \in Labels \cup {NA}
    /\ pc = "start"
    /\ ret = <<>> /\ ret_line = 0
    /\ parsed = NoParse
    /\ area = <<>>
    /\ MainIdle

CallConvertX ==
    /\ pc = "start"
    /\ LET r == convert_x_name(name)
       IN  ret' = r.val /\ ret_line' = r.line
    /\ pc' = "convert_x_name"
    /\ UNCHANGED <<name, parsed, area>>
    /\ UNCHANGED mainVars

CallConvertY ==
    /\ pc = "start"
    /\ LET r == convert_y_name(name)
       IN  ret' = r.val /\ ret_line' = r.line
    /\ pc' = "convert_y_name"
    /\ UNCHANGED <<name, parsed, area>>
    /\ UNCHANGED mainVars

\* the parser functions take a str
CallExtractDevice ==
    /\ pc = "start"
    /\ ~is_na(name)
    /\ parsed' = extract_device_and_no(name)
    /\ pc' = "extract_device_and_no"
    /\ UNCHANGED <<name, ret, ret_line, area>>
    /\ UNCHANGED mainVars

CallExtractArea ==
    /\ pc = "start"
    /\ ~is_na(name)
    /\ area' = extract_area_prefix(name)
    /\ pc' = "extract_area_prefix"
    /\ UNCHANGED <<name, ret, ret_line, parsed>>
    /\ UNCHANGED mainVars

Next ==
    \/ CallConvertX
    \/ CallConvertY
    \/ CallExtractDevice
    \/ CallExtractArea

Spec == Init /\ [][Next]_vars

(***************************************************************************)
(* main(): the sheet and the table pipeline                                *)
(***************************************************************************)
\* start_row of both get_section calls: rows of index >= 15
StartRow == 15

\* the columns a row of the sheet is read at
Cols == {0, 1, 5, 6}

Row(c0, c1, c5, c6) == (0 :> c0) @@ (1 :> c1) @@ (5 :> c5) @@ (6 :> c6)

\* rows of a sheet: code and label cells of the X and of the Y block
RowKinds ==
    { Row(<<"X", "1">>, <<"A", "1", "6">> \o JinFengJi \o <<"1">> \o YunZhuanXunHao,
          <<"Y", "1">>, <<"C", "O", "-", "0", "7">>),
      Row(<<" ", "x", "2", "3", " ">>, <<" ", "b", " ", "_", "!">>,
          <<"y", "5">>, <<"B", "2">> \o PaiFengJi \o <<"3">> \o <<" ">>),
      Row(<<"X", "2">>, NA,
          <<"Y", "2">>, <<" ", " ">>),
      Row(<<"Y", "6">>, JinQiJi \o <<"2">> \o GuZhangXunHao,
          <<"X", "7">>, DianDongFengMen \o <<"5">>),
      Row(NA, PenLiuFengJi \o <<"3">>,
          <<"Y">>, <<"C", "1">> \o DianDongFengMen \o <<"5">>),
      Row(<<"X", "3">>, <<" ">>,
          <<"Y", "3", "b">>, NA) }

\* rows above the start row: titles, or rows shaped like data rows
HeaderKinds ==
    { Row(NA, NA, NA, NA),
      Row(<<"X", "0">>, PaiQiJi \o <<"7">>, <<"Y", "0">>, JinFengJi \o <<"6">>) }

RECURSIVE RowSeqs(_)
RowSeqs(n) ==
    IF n = 0 THEN {<<>>}
    ELSE LET shorter == RowSeqs(n - 1)
         IN  shorter \cup {s \o <<r>> : s \in shorter, r \in RowKinds}

\* a sheet with columns A..B only has no cells in columns F and G
WithColumns(r, n) == [c \in Cols |-> IF c < n THEN r[c] ELSE NA]

\* Series.astype(str): a null cell becomes the text "nan"
astype_str(v) == IF is_na(v) THEN <<"n", "a", "n">> ELSE v

\* Series.str.match(code_regex) for code_regex = ^[<letters>]\d+$
str_match(code, letters) ==
    /\ Len(code) >= 2
    /\ code[1] \in letters
    /\ run_len(code, Digit, 2) = Len(code) - 1

\* df.loc[start_row:, [col_code, col_name]] with the row index kept
RECURSIVE loc_from(_, _, _, _)
loc_from(df, i, col_code, col_name) ==
    IF i > Len(df) - 1 THEN <<>>
    ELSE <<[idx |-> i, Code |-> df[i + 1][col_code],
            Name_zh |-> df[i + 1][col_name]]>>
         \o loc_from(df, i + 1, col_code, col_name)

\* get_section(df, start_row, col_code, col_name, code_regex); n is the
\* number of columns of df, letters the letter class of code_regex
get_section(df, n, start_row, col_code, col_name, letters) ==
    IF col_code >= n \/ col_name >= n THEN <<>>
    ELSE
    LET sec0 == loc_from(df, start_row, col_code, col_name)
        sec1 == SelectSeq(sec0, LAMBDA r : ~is_na(r.Name_zh))
        sec2 == [k \in 1..Len(sec1) |->
                    [idx |-> sec1[k].idx,
                     Code |-> strip(astype_str(sec1[k].Code)),
                     Name_zh |-> strip(astype_str(sec1[k].Name_zh))]]
    IN  SelectSeq(sec2, LAMBDA r : str_match(r.Code, letters))

\* Series.apply(f) keeps the index
apply_x(sec) ==
    [k \in 1..Len(sec) |->
        [idx |-> sec[k].idx, val |-> convert_x_name(sec[k].Name_zh).val]]

apply_y(sec) ==
    [k \in 1..Len(sec) |->
        [idx |-> sec[k].idx, val |-> convert_y_name(sec[k].Name_zh).val]]

\* the value of a Series at index label i
at(series, i) ==
    LET k == CHOOSE j \in 1..Len(series) : series[j].idx = i
    IN  series[k].val

\* pd.DataFrame({"REF": sec["Code"], "COMMENT": desc, "DESCRIPTION": ""}):
\* the columns are aligned on the index, the scalar is broadcast
make_frame(sec, desc) ==
    [k \in 1..Len(sec) |->
        [idx |-> sec[k].idx,
         REF |-> sec[k].Code,
         COMMENT |-> at(desc, sec[k].idx),
         DESCRIPTION |-> <<>>]]

concat_y_first(tx, ty) ==
    LET all == ty \o tx
    IN  [k \in 1..Len(all) |->
            [idx |-> k - 1, REF |-> all[k].REF, COMMENT |-> all[k].COMMENT,
             DESCRIPTION |-> all[k].DESCRIPTION]]

\* pd.concat([df_tx, df_ty], ignore_index=True)
concat(tx, ty) ==
    LET all == tx \o ty
    IN  [k \in 1..Len(all) |->
            [idx |-> k - 1, REF |-> all[k].REF, COMMENT |-> all[k].COMMENT,
             DESCRIPTION |-> all[k].DESCRIPTION]]

ConvIdle ==
    /\ name = <<>>
    /\ ret = <<>> /\ ret_line = 0
    /\ parsed = NoParse
    /\ area = <<>>

\* the state after read_excel (line 137).  The sheet has at least one row
\* from the start row onward.
InitMain ==
    /\ ncols \in {2, 6, 7}
    /\ \E h \in HeaderKinds, data \in RowSeqs(MaxRows) \ {<<>>} :
          df_a = [k \in 1..(StartRow + Len(data)) |->
                     WithColumns(IF k <= StartRow THEN h
                                 ELSE data[k - StartRow], ncols)]
    /\ pc = "read_excel"
    /\ df_x = <<>> /\ df_y = <<>>
    /\ x_desc = <<>> /\ y_desc = <<>>
    /\ df_tx = <<>> /\ df_ty = <<>> /\ df_t = <<>>
    /\ ConvIdle

\* line 158
GetSectionX ==
    /\ pc = "read_excel"
    /\ df_x' = get_section(df_a, ncols, StartRow, 0, 1, {"X", "x"})
    /\ pc' = "get_section_x"
    /\ UNCHANGED <<df_a, ncols, df_y, x_desc, y_desc, df_tx, df_ty, df_t>>
    /\ UNCHANGED <<name, ret, ret_line, parsed, area>>

\* line 161
GetSectionY ==
    /\ pc = "get_section_x"
    /\ df_y' = get_section(df_a, ncols, StartRow, 5, 6, {"Y", "y"})
    /\ pc' = "get_section_y"
    /\ UNCHANGED <<df_a, ncols, df_x, x_desc, y_desc, df_tx, df_ty, df_t>>
    /\ UNCHANGED <<name, ret, ret_line, parsed, area>>

\* lines 167-168
ApplyConverters ==
    /\ pc = "get_section_y"
    /\ x_desc' = apply_x(df_x)
    /\ y_desc' = apply_y(df_y)
    /\ pc' = "apply"
    /\ UNCHANGED <<df_a, ncols, df_x, df_y, df_tx, df_ty, df_t>>
    /\ UNCHANGED <<name, ret, ret_line, parsed, area>>

\* lines 171-182
BuildFrames ==
    /\ pc = "apply"
    /\ df_tx' = make_frame(df_x, x_desc)
    /\ df_ty' = make_frame(df_y, y_desc)
    /\ pc' = "frames"
    /\ UNCHANGED <<df_a, ncols, df_x, df_y, x_desc, y_desc, df_t>>
    /\ UNCHANGED <<name, ret, ret_line, parsed, area>>

\* line 185
Concat ==
    /\ pc = "frames"
    /\ df_t' = concat(df_tx, df_ty)
    /\ pc' = "concat"
    /\ UNCHANGED <<df_a, ncols, df_x, df_y, x_desc, y_desc, df_tx, df_ty>>
    /\ UNCHANGED <<name, ret, ret_line, parsed, area>>

NextMain ==
    \/ GetSectionX
    \/ GetSectionY
    \/ ApplyConverters
    \/ BuildFrames
    \/ Concat

SpecMain == InitMain /\ [][NextMain]_vars

(***************************************************************************)
(* Vocabulary of the properties, stated over positions of the label        *)
(***************************************************************************)
MinOf(S) == CHOOSE x \in S : \A y \in S : x <= y
MaxOf(S) == CHOOSE x \in S : \A y \in S : y <= x

\* the label without its leading and trailing blanks
Trimmed(s) ==
    LET inked == {i \in 1..Len(s) : s[i] # " "}
    IN  IF inked = {} THEN <<>> ELSE SubSeq(s, MinOf(inked), MaxOf(inked))

\* phrase p occupies positions i .. i+Len(p)-1 of s
OccursAt(p, s, i) ==
    /\ i + Len(p) - 1 <= Len(s)
    /\ \A j \in 1..Len(p) : s[i + j - 1] = p[j]

Has(p, s) == \E i \in 1..Len(s) : OccursAt(p, s, i)

\* the device lexicon in its declared order, and the code of each phrase
LexiconOrder ==
    <<JinFengJi, JinQiJi, PaiFengJi, PaiQiJi, PenLiuFengJi, DianDongFengMen>>

CategoryCode(p) ==
    CASE p \in {JinFengJi, JinQiJi} -> <<"I", "N", "_", "M">>
      [] p \in {PaiFengJi, PaiQiJi} -> <<"O", "U", "T", "_", "M">>
      [] p = PenLiuFengJi -> <<"M">>
      [] p = DianDongFengMen -> <<"D">>

MatchedIx(s) == {k \in 1..Len(LexiconOrder) : Has(LexiconOrder[k], s)}
HasDevice(s) == MatchedIx(s) # {}
WinningPhrase(s) == LexiconOrder[MinOf(MatchedIx(s))]

\* last position of the first occurrence of the winning phrase
PhraseEnd(s) ==
    LET p == WinningPhrase(s)
    IN  MinOf({i \in 1..Len(s) : OccursAt(p, s, i)}) + Len(p) - 1

\* first maximal run of digits after the winning phrase
InstanceNumber(s) ==
    LET e == PhraseEnd(s)
        ds == {i \in (e + 1)..Len(s) : s[i] \in Digit}
    IN  IF ds = {} THEN <<>>
        ELSE LET d == MinOf(ds)
                 last == MaxOf({j \in d..Len(s) :
                                  \A i \in d..j : s[i] \in Digit})
             IN  SubSeq(s, d, last)

\* longest prefix made of one or more letters followed by one or more digits
AreaOf(s) ==
    LET K == {k \in 2..Len(s) :
                \E n \in 1..(k - 1) :
                    /\ \A i \in 1..n : s[i] \in AsciiLetter
                    /\ \A i \in (n + 1)..k : s[i] \in Digit}
    IN  IF K = {} THEN <<>> ELSE SubSeq(s, 1, MaxOf(K))

SuffixPart(s) ==
    IF Has(YunZhuanXunHao, s) THEN <<"_", "S", "T", "A", "T">>
    ELSE IF Has(GuZhangXunHao, s) THEN <<"_", "A", "L", "M">>
    ELSE <<>>

ExpectedX(s) ==
    (IF AreaOf(s) # <<>> THEN AreaOf(s) \o <<"_">> ELSE <<>>)
    \o CategoryCode(WinningPhrase(s)) \o InstanceNumber(s) \o SuffixPart(s)

DisplayLabel(code) ==
    CASE code = <<"I", "N", "_", "M">> -> <<"I", "n", " ", "M", "o", "t", "o", "r">>
      [] code = <<"O", "U", "T", "_", "M">> -> <<"O", "u", "t", " ", "M", "o", "t", "o", "r">>
      [] code = <<"M">> -> <<"M", "o", "t", "o", "r">>

ExpectedY(s) ==
    LET code == CategoryCode(WinningPhrase(s))
    IN  IF code = <<"D">>
        THEN (IF AreaOf(s) # <<>> THEN AreaOf(s) \o <<"_">> ELSE <<>>)
             \o <<"D", "O", "O", "R">> \o InstanceNumber(s)
        ELSE (IF AreaOf(s) # <<>> THEN AreaOf(s) \o <<" ">> ELSE <<>>)
             \o DisplayLabel(code) \o InstanceNumber(s)

\* the whole of s is "CO-" followed by one or more digits
IsCOCode(s) ==
    /\ Len(s) >= 4
    /\ s[1] = "C" /\ s[2] = "O" /\ s[3] = "-"
    /\ \A i \in 4..Len(s) : s[i] \in Digit

Alnum == AsciiLetter \cup Digit \cup Han

\* r is s with the positions outside [alphanumeric, _, -] deleted
IsSanitizedOf(r, s) ==
    LET kept == {i \in 1..Len(s) : s[i] \in Alnum \cup {"_", "-"}}
    IN  /\ Len(r) = Cardinality(kept)
        /\ \A i \in kept :
              r[Cardinality({j \in kept : j <= i})] = s[i]

ReturnedX == pc = "convert_x_name"
ReturnedY == pc = "convert_y_name"
ReturnedDev == pc = "extract_device_and_no"

Ex_A16 == <<"A", "1", "6">> \o JinFengJi \o <<"1">> \o YunZhuanXunHao
Ex_JinQi2 == JinQiJi \o <<"2">> \o GuZhangXunHao
Ex_CO07 == <<"C", "O", "-", "0", "7">>
Ex_B2 == <<"B", "2">> \o PaiFengJi \o <<"3">>
Ex_Door5 == DianDongFengMen \o <<"5">>
Ex_C1Door5 == <<"C", "1">> \o DianDongFengMen \o <<"5">>

(***************************************************************************)
(* Properties of the formatters and the parser (specification Spec)        *)
(***************************************************************************)

\* C1: for a non-null label whose trimmed text contains a device phrase,
\* convert_x_name returns [area "_"] code number ["_" suffix], the suffix
\* being STAT when the status phrase occurs and otherwise ALM when the alarm
\* phrase occurs; the two documented examples give A16_IN_M1_STAT and
\* IN_M2_ALM.
ThmC1 ==
    /\ (ReturnedX /\ name # NA /\ HasDevice(Trimmed(name)))
          => (ret = ExpectedX(Trimmed(name)) /\ ret_line = 79)
    /\ (ReturnedX /\ name = Ex_A16)
          => ret = <<"A", "1", "6", "_", "I", "N", "_", "M", "1",
                     "_", "S", "T", "A", "T">>
    /\ (ReturnedX /\ name = Ex_JinQi2)
          => ret = <<"I", "N", "_", "M", "2", "_", "A", "L", "M">>

\* an area, a device, its number and a signal phrase
WitC1 ==
    /\ ReturnedX
    /\ name = <<"A", "1", "6">> \o JinFengJi \o <<"1">> \o YunZhuanXunHao
    /\ ret = <<"A", "1", "6", "_", "I", "N", "_", "M", "1",
               "_", "S", "T", "A", "T">>

\* C2: for a label with no device phrase convert_x_name returns the trimmed
\* label with every character outside [alphanumeric, _, -] removed, order
\* kept, through the fallback return (no area or suffix composition).
ThmC2 ==
    (ReturnedX /\ name # NA /\ ~HasDevice(Trimmed(name)))
        => (IsSanitizedOf(ret, Trimmed(name)) /\ ret_line = 66)

WitC2 ==
    /\ ReturnedX
    /\ name = <<" ", "C", "O", "-", "_", "!">>
    /\ ret = <<"C", "O", "-", "_">>

\* C3: for a non-null label that is not a CO code and contains a device
\* phrase, convert_y_name returns [area " "] display-label number for the
\* motor categories and [area "_"] DOOR number for the door category; the
\* final fall-through return is never the one executed.
ThmC3 ==
    /\ (ReturnedY /\ name # NA /\ ~IsCOCode(Trimmed(name))
          /\ HasDevice(Trimmed(name)))
          => /\ ret = ExpectedY(Trimmed(name))
             /\ ret_line = IF CategoryCode(WinningPhrase(Trimmed(name))) = <<"D">>
                           THEN 105 ELSE 101
    /\ ReturnedY => ret_line # 107
    /\ (ReturnedY /\ name = Ex_B2)
          => ret = <<"B", "2", " ", "O", "u", "t", " ", "M", "o", "t", "o", "r", "3">>
    /\ (ReturnedY /\ name = Ex_Door5) => ret = <<"D", "O", "O", "R", "5">>
    /\ (ReturnedY /\ name = Ex_C1Door5)
          => ret = <<"C", "1", "_", "D", "O", "O", "R", "5">>

WitC3 ==
    /\ ReturnedY
    /\ name = Ex_B2
    /\ ret = <<"B", "2", " ", "O", "u", "t", " ", "M", "o", "t", "o", "r", "3">>
    /\ ret_line = 101

\* C4: convert_y_name leaves through the CO pass-through return, giving the
\* trimmed label unchanged, exactly when the whole trimmed label is "CO-"
\* followed by digits; a CO code followed by a device phrase goes through
\* the device logic.
ThmC4 ==
    /\ (ReturnedY /\ name # NA)
          => /\ (ret_line = 89) <=> IsCOCode(Trimmed(name))
             /\ (ret_line = 89) => ret = Trimmed(name)
    /\ (ReturnedY /\ name = Ex_CO07) => ret = <<"C", "O", "-", "0", "7">>
    /\ (ReturnedY /\ name = <<"C", "O", "-", "1">> \o JinFengJi)
          => (ret_line = 101 /\ ret = <<"I", "n", " ", "M", "o", "t", "o", "r">>)

WitC4 ==
    /\ ReturnedY
    /\ name = <<" ", "C", "O", "-", "2", "3">>
    /\ ret = <<"C", "O", "-", "2", "3">>
    /\ ret_line = 89

\* C5: for a non-null label with no device phrase that is not a CO code,
\* convert_y_name returns the trimmed label character for character,
\* including characters that convert_x_name removes from the same label.
ThmC5 ==
    (ReturnedY /\ name # NA /\ ~HasDevice(Trimmed(name))
       /\ ~IsCOCode(Trimmed(name)))
        => (ret = Trimmed(name) /\ ret_line = 94)

WitC5 ==
    /\ ReturnedY
    /\ name = <<"A", "1", "6", " ", "_", "!">>
    /\ ret = <<"A", "1", "6", " ", "_", "!">>
    /\ convert_x_name(name).val = <<"A", "1", "6", "_">>

\* C6: when a label contains two or more device phrases, the category is
\* that of the phrase coming first in the declared lexicon order, wherever
\* the phrases stand in the text; a label with the outbound phrase before
\* the inbound phrase is classified IN_M by the parser and both formatters.
ThmC6 ==
    /\ (ReturnedDev /\ Cardinality(MatchedIx(name)) >= 2)
          => parsed.en = CategoryCode(WinningPhrase(name))
    /\ (name = PaiFengJi \o JinFengJi)
          => /\ ReturnedDev => parsed.en = <<"I", "N", "_", "M">>
             /\ ReturnedX => ret = <<"I", "N", "_", "M">>
             /\ ReturnedY => ret = <<"I", "n", " ", "M", "o", "t", "o", "r">>

WitC6 ==
    /\ ReturnedDev
    /\ name = PaiFengJi \o <<"1">> \o JinFengJi
    /\ parsed = [en |-> <<"I", "N", "_", "M">>, device_no |-> <<>>]

\* C7: the instance number is the first maximal run of digits after the
\* matched device phrase; digits before the phrase are not used, and with
\* no digit after the phrase the number is empty and the conversions still
\* return a composed result.
ThmC7 ==
    /\ (ReturnedDev /\ HasDevice(name))
          => parsed.device_no = InstanceNumber(name)
    /\ (ReturnedX /\ name # NA /\ HasDevice(Trimmed(name))
          /\ InstanceNumber(Trimmed(name)) = <<>>)
          => (ret_line = 79 /\ ret # <<>>)
    /\ (ReturnedY /\ name # NA /\ HasDevice(Trimmed(name))
          /\ InstanceNumber(Trimmed(name)) = <<>>)
          => (ret_line \in {101, 105} /\ ret # <<>>)

WitC7 ==
    /\ ReturnedDev
    /\ name = <<"1">> \o PaiQiJi \o <<"2", "3">>
    /\ parsed.device_no = <<"2", "3">>

\* C8: for a null label, an empty label and a label of blanks only, both
\* convert_x_name and convert_y_name return the empty string.
ThmC8 ==
    ((ReturnedX \/ ReturnedY)
       /\ (name = NA \/ \A i \in 1..Len(name) : name[i] = " "))
        => ret = <<>>

WitC8 ==
    /\ ReturnedY
    /\ name = <<" ", " ">>
    /\ ret = <<>>

(***************************************************************************)
(* Properties of main (specification SpecMain)                             *)
(***************************************************************************)
\* the trimmed code cell is one letter of letters followed by digits
CodeMatches(c, letters) ==
    /\ c # NA
    /\ LET t == Trimmed(c)
       IN  /\ Len(t) >= 2
           /\ t[1] \in letters
           /\ \A i \in 2..Len(t) : t[i] \in Digit

DataRows == StartRow..(Len(df_a) - 1)
CellOf(i, c) == df_a[i + 1][c]

\* indices of the rows the filtering lets through
KeptX ==
    IF ncols < 2 THEN {}
    ELSE {i \in DataRows :
            CellOf(i, 1) # NA /\ CodeMatches(CellOf(i, 0), {"X", "x"})}
KeptY ==
    IF ncols < 7 THEN {}
    ELSE {i \in DataRows :
            CellOf(i, 6) # NA /\ CodeMatches(CellOf(i, 5), {"Y", "y"})}

Rank(i, S) == Cardinality({j \in S : j <= i})

IsBlank(c) == c = NA \/ \A i \in 1..Len(c) : c[i] = " "

\* C9: the output table holds one record per input row that passes the
\* filtering, the X records before the Y records, each section in input
\* order; REF is the row's (trimmed) code, COMMENT the conversion of the
\* same row's label, DESCRIPTION is empty.
ThmC9 ==
    pc = "concat" =>
        /\ Len(df_t) = Cardinality(KeptX) + Cardinality(KeptY)
        /\ \A i \in KeptX :
              LET r == df_t[Rank(i, KeptX)]
              IN  /\ r.REF = Trimmed(CellOf(i, 0))
                  /\ r.COMMENT = convert_x_name(CellOf(i, 1)).val
                  /\ r.DESCRIPTION = <<>>
        /\ \A i \in KeptY :
              LET r == df_t[Cardinality(KeptX) + Rank(i, KeptY)]
              IN  /\ r.REF = Trimmed(CellOf(i, 5))
                  /\ r.COMMENT = convert_y_name(CellOf(i, 6)).val
                  /\ r.DESCRIPTION = <<>>

\* two X records with different comments followed by two Y records
WitC9 ==
    /\ pc = "concat"
    /\ Cardinality(KeptX) = 2 /\ Cardinality(KeptY) = 2
    /\ Len(df_t) = 4
    /\ df_t[1].COMMENT # df_t[2].COMMENT
    /\ df_t[1].REF \in {<<"X", "1">>, <<"x", "2", "3">>}
    /\ df_t[3].REF \in {<<"Y", "1">>, <<"y", "5">>, <<"Y", "2">>}

\* C10: get_section keeps exactly the rows from the start row onward whose
\* label cell is neither null nor blank (blanks only) and whose code cell
\* matches the section's pattern.
CexC10 ==
    /\ pc = "get_section_x" =>
          {df_x[k].idx : k \in 1..Len(df_x)} =
              {i \in KeptX : ~IsBlank(CellOf(i, 1))}
    /\ pc = "get_section_y" =>
          {df_y[k].idx : k \in 1..Len(df_y)} =
              {i \in KeptY : ~IsBlank(CellOf(i, 6))}

=============================================================================
